---- MODULE Spec2Model ----
(***************************************************************************)
(* A model of the Kraken Futures trading bot of src/tradingBot.js: the     *)
(* nonce generator, the position sizer, the exchange gateway and the       *)
(* decision cycle (tradingLoop) with its action handlers.                  *)
(*                                                                         *)
(* Units.  Prices and margins are whole USD.  Order sizes are counted in   *)
(* 1e-4 BTC (the 4 decimals calculateTradeSize rounds to), so 0.0100 BTC   *)
(* is 100.  USD amounts inside the sizer are counted in cents.  The clock  *)
(* is Date.now() counted in milliseconds from the process start.           *)
(***************************************************************************)
EXTENDS Integers, Naturals, Sequences, FiniteSets, TLC

VARIABLES
    nonceCounter,   \* let nonceCounter                       (tradingBot.js:71)
    now,            \* Date.now()
    lastNonce,      \* the value the last createNonce() call returned
    mark,           \* one earlier returned nonce, kept to compare later ones with
    sinceMark,      \* createNonce() calls made after the marked one
    calls,          \* createNonce() calls made so far (counted up to MaxMarked)
    pc,             \* where the decision cycle stands
    cycle,          \* decision cycles completed
    notesFile,      \* bot_notes.json
    ctx,            \* accountContext of the running cycle
    plan,           \* strategyPlan of the running cycle
    env,            \* how the exchange and the file system answer this cycle
    atStart,        \* the exchange as it was when the cycle fetched it
    log,            \* gateway requests sent this cycle, in order
    written,        \* values handed to writeNotes this cycle, in order
    fileOps,        \* reads and writes of bot_notes.json this cycle, in order
    timer,          \* a call of runBot is pending (main's call or a setTimeout)
    running,        \* tradingLoop calls in progress
    call,           \* the last direct call of a mutating gateway function
    sizing,         \* the last direct call of calculateTradeSize and its result
    signed,         \* the last two signRequest calls, oldest first
    built,          \* the orders handleNewPosition last built, with their inputs
    reads,          \* the reads of one Promise.all: issued, finished, outcome
    startup,        \* main(): the credentials it found and how it went on
    position,       \* exchange: net position of FUTURES_SYMBOL, in 1e-4 BTC
    openOrders,     \* exchange: resting orders of FUTURES_SYMBOL
    nextOrderId     \* exchange: id the next accepted order gets

nonceVars == <<nonceCounter, now, lastNonce, mark, sinceMark, calls>>
cycleVars == <<pc, cycle, notesFile, ctx, plan, env, atStart, log, written, fileOps>>
exchangeVars == <<position, openOrders, nextOrderId>>
schedVars == <<timer, running>>
vars == <<nonceCounter, now, lastNonce, mark, sinceMark, calls,
          pc, cycle, notesFile, ctx, plan, env, atStart, log, written, fileOps,
          position, openOrders, nextOrderId, timer, running, call, sizing, signed, built, reads,
          startup>>

---------------------------------------------------------------------------
(* Bounds of the model *)

MaxNow == 1         \* milliseconds the clock may advance
MaxMarked == 3      \* the marked nonce is one of the first MaxMarked returned
MaxCycles == 3      \* decision cycles run
MaxRequests == 2    \* requests sent by gateway functions called directly
MaxSigned == 3      \* private requests signed one after the other

---------------------------------------------------------------------------
(* Configuration (tradingBot.js:55-65) *)

IS_LIVE_TRADING_ENABLED == TRUE
LEVERAGE == 10
LEVERAGE_SAFETY_FACTOR_PCT == 90    \* LEVERAGE_SAFETY_FACTOR = 0.9, in percent
RISK_PER_TRADE_PERCENT == 1
STOP_LOSS_PERCENT == 2
MINIMUM_TRADE_USD == 10

Undefined == "undefined"            \* a missing string-valued field
NoNumber == 0                       \* null / a missing numeric field (falsy)

---------------------------------------------------------------------------
(* Nonce generator *)

NONCE_WRAP == 9999
NONCE_SUFFIX_MOD == 100000

\* if (nonceCounter > 9999) nonceCounter = 0;
ResetCounter_At999(c) == IF c > 999 THEN 0 ELSE c
ResetCounter(c) == IF c > NONCE_WRAP THEN 0 ELSE c

\* ('0000' + n).slice(-5): the last five characters, read as a number.
Suffix(c) == c % NONCE_SUFFIX_MOD

\* Date.now() + suffix: the decimal timestamp followed by the five digits.
NonceString(t, c) == t * NONCE_SUFFIX_MOD + Suffix(c)

\* createNonce(): [nonce, counter] = the value returned and the counter left.
createNonce(t, c) ==
    [nonce |-> NonceString(t, ResetCounter(c)), counter |-> ResetCounter(c) + 1]

NonceTime(n) == n \div NONCE_SUFFIX_MOD

\* String(n) of a non-negative integer: its decimal digits.
Digit(d) == SubSeq("0123456789", d + 1, d + 1)

RECURSIVE Decimal(_)
Decimal(n) == IF n < 10 THEN Digit(n) ELSE Decimal(n \div 10) \o Digit(n % 10)

\* ('0000' + n).slice(-5): the last five characters of the padded text (the
\* whole text when it has fewer than five).
PaddedCounter_Unpadded(c) == Decimal(c)
PaddedCounter(c) ==
    LET text == "0000" \o Decimal(c)
    IN  IF Len(text) <= 5 THEN text ELSE SubSeq(text, Len(text) - 4, Len(text))

\* Date.now() + ('0000' + nonceCounter++).slice(-5), as the text it is.
NonceText(t, c) == Decimal(t) \o PaddedCounter(c)

RECURSIVE AfterNonces(_, _, _)
\* the counter after k createNonce() calls at time t
AfterNonces(t, c, k) ==
    IF k = 0 THEN c ELSE AfterNonces(t, createNonce(t, c).counter, k - 1)

NoNonce == -1

---------------------------------------------------------------------------
(* Request signing *)

\* endpoint.startsWith(prefix)
startsWith(text, prefix) ==
    /\ Len(text) >= Len(prefix)
    /\ SubSeq(text, 1, Len(prefix)) = prefix

\* const path = endpoint.startsWith('/derivatives')
\*     ? endpoint.slice('/derivatives'.length) : endpoint
NormalizedPath_Unstripped(endpoint) == endpoint
NormalizedPath(endpoint) ==
    IF startsWith(endpoint, "/derivatives")
    THEN SubSeq(endpoint, Len("/derivatives") + 1, Len(endpoint))
    ELSE endpoint

\* const message = postData + nonce + path
Message_PathFirst(path, nonce, postData) == path \o nonce \o postData
Message(path, nonce, postData) == postData \o nonce \o path

\* signRequest(endpoint, nonce, postData): HMAC-SHA512, keyed with the decoded
\* secret, of the SHA-256 digest of the message. The two hashes are taken to be
\* collision-free, so the signature is represented by the key and the message
\* it is computed from.
signRequest(secret, endpoint, nonce, postData) ==
    [key |-> secret, message |-> Message(NormalizedPath(endpoint), nonce, postData)]

---------------------------------------------------------------------------
(* Position sizer *)

Min_First(a, b) == a
Min(a, b) == IF a < b THEN a ELSE b

\* x / y rounded to the nearest integer, halves up (toFixed, Math.round; x, y > 0)
RoundDiv(x, y) == (2 * x + y) \div (2 * y)

\* calculateTradeSize(availableMargin, currentPrice): the size in 1e-4 BTC.
calculateTradeSize_NoFloor(availableMargin, currentPrice) ==
    LET maxLeveragedPositionUSD == availableMargin * LEVERAGE * LEVERAGE_SAFETY_FACTOR_PCT
        riskAmountUSD == availableMargin * RISK_PER_TRADE_PERCENT
        riskDefinedPositionUSD == (riskAmountUSD * 100) \div STOP_LOSS_PERCENT
        finalPositionUSD == Min(maxLeveragedPositionUSD, riskDefinedPositionUSD)
    IN  IF finalPositionUSD > maxLeveragedPositionUSD
        THEN 0
        ELSE RoundDiv(finalPositionUSD * 100, currentPrice)
calculateTradeSize_NoBuyingPowerCheck(availableMargin, currentPrice) ==
    LET maxLeveragedPositionUSD == availableMargin * LEVERAGE * LEVERAGE_SAFETY_FACTOR_PCT
        riskAmountUSD == availableMargin * RISK_PER_TRADE_PERCENT
        riskDefinedPositionUSD == (riskAmountUSD * 100) \div STOP_LOSS_PERCENT
        target == Min(maxLeveragedPositionUSD, riskDefinedPositionUSD)
        finalPositionUSD == IF target < MINIMUM_TRADE_USD * 100
                            THEN MINIMUM_TRADE_USD * 100 ELSE target
    IN  RoundDiv(finalPositionUSD * 100, currentPrice)

\* The amounts of calculateTradeSize, in cents.
\* availableMargin * LEVERAGE * LEVERAGE_SAFETY_FACTOR
maxLeveragedPositionUSD(availableMargin) ==
    availableMargin * LEVERAGE * LEVERAGE_SAFETY_FACTOR_PCT

\* availableMargin * (RISK_PER_TRADE_PERCENT / 100)
riskAmountUSD(availableMargin) == availableMargin * RISK_PER_TRADE_PERCENT

\* riskAmountUSD / (STOP_LOSS_PERCENT / 100)
riskDefinedPositionUSD_StopIgnored(availableMargin) == riskAmountUSD(availableMargin) * 100
riskDefinedPositionUSD(availableMargin) ==
    (riskAmountUSD(availableMargin) * 100) \div STOP_LOSS_PERCENT

\* finalPositionUSD < MINIMUM_TRADE_USD, before the floor is applied
belowMinimum(availableMargin) ==
    Min(maxLeveragedPositionUSD(availableMargin), riskDefinedPositionUSD(availableMargin))
        < MINIMUM_TRADE_USD * 100

\* finalPositionUSD after steps 2 and 3
finalPositionUSD_Unfloored(availableMargin) ==
    Min(maxLeveragedPositionUSD(availableMargin), riskDefinedPositionUSD(availableMargin))
finalPositionUSD(availableMargin) ==
    IF belowMinimum(availableMargin)
    THEN MINIMUM_TRADE_USD * 100
    ELSE Min(maxLeveragedPositionUSD(availableMargin),
             riskDefinedPositionUSD(availableMargin))

calculateTradeSize(availableMargin, currentPrice) ==
    IF finalPositionUSD(availableMargin) > maxLeveragedPositionUSD(availableMargin)
    THEN 0
    ELSE RoundDiv(finalPositionUSD(availableMargin) * 100, currentPrice)

---------------------------------------------------------------------------
(* Trade Memory: bot_notes.json *)

NoTrade == [action |-> Undefined, result |-> Undefined, reason |-> Undefined,
            entryPrice |-> NoNumber, exitPrice |-> NoNumber]

\* The value readNotes() returns when the file cannot be read.
DefaultNotes ==
    [hasLastTrade |-> TRUE,
     lastTrade |-> [action |-> "none", result |-> "N/A", reason |-> Undefined,
                    entryPrice |-> NoNumber, exitPrice |-> NoNumber],
     generalObservations |-> "Bot initialized."]

\* A JSON object is the sequence of its members <<key, value>>.
\* JSON.stringify leaves out a member whose value is undefined.
StringMember(key, value) == IF value = Undefined THEN <<>> ELSE << <<key, value>> >>

HasMember(object, key) == \E i \in 1..Len(object) : object[i][1] = key

Member(object, key) ==
    object[CHOOSE i \in 1..Len(object) : object[i][1] = key][2]

\* JSON.stringify(notes, null, 2)
JSONStringify(notes) ==
    (IF notes.hasLastTrade
     THEN << <<"lastTrade",
                StringMember("action", notes.lastTrade.action)
                \o StringMember("result", notes.lastTrade.result)
                \o StringMember("reason", notes.lastTrade.reason)
                \o << <<"entryPrice", notes.lastTrade.entryPrice>>,
                      <<"exitPrice", notes.lastTrade.exitPrice>> >> >> >>
     ELSE <<>>)
    \o StringMember("generalObservations", notes.generalObservations)

StringOf(object, key) == IF HasMember(object, key) THEN Member(object, key) ELSE Undefined
NumberOf(object, key) == IF HasMember(object, key) THEN Member(object, key) ELSE NoNumber

\* JSON.parse(data)
JSONParse(text) ==
    [hasLastTrade |-> HasMember(text, "lastTrade"),
     lastTrade |->
        IF HasMember(text, "lastTrade")
        THEN [action |-> StringOf(Member(text, "lastTrade"), "action"),
              result |-> StringOf(Member(text, "lastTrade"), "result"),
              reason |-> StringOf(Member(text, "lastTrade"), "reason"),
              entryPrice |-> NumberOf(Member(text, "lastTrade"), "entryPrice"),
              exitPrice |-> NumberOf(Member(text, "lastTrade"), "exitPrice")]
        ELSE NoTrade,
     generalObservations |-> StringOf(text, "generalObservations")]

NoFile == [exists |-> FALSE, content |-> <<>>]

\* readNotes(): the parsed file, or the default when it cannot be read.
readNotes(file) == IF file.exists THEN JSONParse(file.content) ELSE DefaultNotes

\* writeNotes(notes): the file afterwards; a failed write is logged and dropped.
writeNotes_Dropped(file, notes, ok) == file
writeNotes(file, notes, ok) ==
    IF ok THEN [exists |-> TRUE, content |-> JSONStringify(notes)] ELSE file

RECURSIVE WriteAll(_, _, _)
\* the file after writeNotes was called with each of `writes` in turn
WriteAll(file, writes, ok) ==
    IF writes = <<>> THEN file
    ELSE WriteAll(writeNotes(file, Head(writes), ok), Tail(writes), ok)

\* Requests of Promise.all([fetchMarketData(), getAccountData(),
\* getOpenPositions(), getOpenOrders()])
FetchRequests == 4

ReadOp == [op |-> "read", requests |-> 0]
WriteOp(requests) == [op |-> "write", requests |-> requests]

\* { ...notes, generalObservations: text }
WithObservation(notes, text) == [notes EXCEPT !.generalObservations = text]

\* const errorNotes = { generalObservations: `The bot crashed with error: ...` }
errorNotes(message) ==
    [hasLastTrade |-> FALSE, lastTrade |-> NoTrade,
     generalObservations |-> "The bot crashed with error: " \o message]

---------------------------------------------------------------------------
(* Orders and the exchange *)

EntryActions == {"ENTER_LONG", "ENTER_SHORT"}

\* entryOrder of handleNewPosition
entryOrder(p, tradeSizeBTC) ==
    [orderType |-> p.orderType,
     side |-> IF p.action = "ENTER_LONG" THEN "buy" ELSE "sell",
     size |-> tradeSizeBTC,
     limitPrice |-> IF p.orderType = "lmt" THEN p.price ELSE NoNumber,
     stopPrice |-> NoNumber]

\* Math.round(currentPrice * (1 -/+ STOP_LOSS_PERCENT / 100))
roundedStopPrice_TowardProfit(action, currentPrice) ==
    IF action = "ENTER_LONG"
    THEN RoundDiv(currentPrice * (100 + STOP_LOSS_PERCENT), 100)
    ELSE RoundDiv(currentPrice * (100 - STOP_LOSS_PERCENT), 100)
roundedStopPrice(action, currentPrice) ==
    IF action = "ENTER_LONG"
    THEN RoundDiv(currentPrice * (100 - STOP_LOSS_PERCENT), 100)
    ELSE RoundDiv(currentPrice * (100 + STOP_LOSS_PERCENT), 100)

\* stopLossOrder of handleNewPosition
stopLossOrder(p, tradeSizeBTC, currentPrice) ==
    LET stop == roundedStopPrice(p.action, currentPrice)
    IN  [orderType |-> "stp",
         side |-> IF p.action = "ENTER_LONG" THEN "sell" ELSE "buy",
         size |-> tradeSizeBTC,
         limitPrice |-> IF p.action = "ENTER_LONG" THEN stop - 1 ELSE stop + 1,
         stopPrice |-> stop]

Signed(side, size) == IF side = "buy" THEN size ELSE 0 - size

\* The exchange after it answered a sendorder request with `status`: a market
\* order that is placed fills at once, a limit or stop order rests.
ExchangeAfterOrder(pos, orders, id, order, status) ==
    IF status # "placed"
    THEN [position |-> pos, openOrders |-> orders, nextOrderId |-> id]
    ELSE IF order.orderType = "mkt"
    THEN [position |-> pos + Signed(order.side, order.size),
          openOrders |-> orders, nextOrderId |-> id + 1]
    ELSE [position |-> pos,
          openOrders |-> orders \cup
              {[id |-> id, orderType |-> order.orderType, side |-> order.side,
                size |-> order.size, limitPrice |-> order.limitPrice,
                stopPrice |-> order.stopPrice]},
          nextOrderId |-> id + 1]

\* One line of the cycle's request log.
Sent(op, order, status) ==
    [op |-> op, orderId |-> NoNumber, orderType |-> order.orderType,
     side |-> order.side, size |-> order.size, limitPrice |-> order.limitPrice,
     stopPrice |-> order.stopPrice, status |-> status]

\* The line of a cancelorder request.
SentCancel(orderId, status) ==
    [op |-> "cancelorder", orderId |-> orderId, orderType |-> Undefined,
     side |-> Undefined, size |-> 0, limitPrice |-> NoNumber,
     stopPrice |-> NoNumber, status |-> status]

---------------------------------------------------------------------------
(* The decision cycle: what tradingLoop derives from its reads *)

NoPosition == [side |-> Undefined, size |-> 0]
NoIndicators == [defined |-> FALSE, lastPrice |-> NoNumber]
NoPlan == [action |-> Undefined, orderType |-> Undefined, price |-> NoNumber,
           failed |-> FALSE]

\* openPositions?.openPositions?.find(p => p.symbol === FUTURES_SYMBOL)
findPosition(pos) ==
    IF pos = 0 THEN NoPosition
    ELSE [side |-> IF pos > 0 THEN "long" ELSE "short",
          size |-> IF pos > 0 THEN pos ELSE 0 - pos]

\* const hasOpenPosition = !!position;
hasOpenPosition_Never(pos) == FALSE
hasOpenPosition(pos) == findPosition(pos) # NoPosition

StopOrders(orders) == {o \in orders : o.orderType = "stp"}

\* openOrders?.openOrders?.find(o => o.symbol === FUTURES_SYMBOL && o.orderType === 'stp')
stopLossForPosition(orders) ==
    IF StopOrders(orders) = {} THEN <<>>
    ELSE <<CHOOSE o \in StopOrders(orders) :
               \A q \in StopOrders(orders) : o.id <= q.id>>

\* const accountContext = { hasOpenPosition, position, openOrders, availableMargin,
\*                          previousNotes }: it carries no indicators.
accountContext(pos, orders, availableMargin, previousNotes) ==
    [hasOpenPosition |-> hasOpenPosition(pos),
     position |-> findPosition(pos),
     openOrders |-> stopLossForPosition(orders),
     availableMargin |-> availableMargin,
     previousNotes |-> previousNotes,
     indicators |-> NoIndicators]

\* The context handleNewPosition is documented to take ("the full account and
\* market context"): accountContext together with calculateIndicators' result.
fullContext(pos, orders, availableMargin, previousNotes, lastPrice) ==
    [accountContext(pos, orders, availableMargin, previousNotes)
        EXCEPT !.indicators = [defined |-> TRUE, lastPrice |-> lastPrice]]

NoContext == accountContext(0, {}, 0, DefaultNotes)

---------------------------------------------------------------------------
(* The decision cycle: the switch of tradingLoop and the handlers *)

\* switch (strategyPlan.action) { ... }
Route_HoldFallsThrough(action) ==
    CASE action \in EntryActions -> "handleNewPosition"
      [] action = "ADJUST_SL" -> "handleStopLossAdjustment"
      [] action = "EXIT_POSITION" -> "handlePositionExit"
      [] action = "HOLD" -> "handleNewPosition"
      [] OTHER -> "hold"
Route(action) ==
    CASE action \in EntryActions -> "handleNewPosition"
      [] action = "ADJUST_SL" -> "handleStopLossAdjustment"
      [] action = "EXIT_POSITION" -> "handlePositionExit"
      [] OTHER -> "hold"

\* What a handler does up to its first gateway request: it either returns the
\* notes of the cycle (next = "return"), throws (next = "throw"), or goes on to
\* submit the entry order (next = "entry").
\* `writes` are the values the path hands to writeNotes, in order.
Return(notes) == [next |-> "return", notes |-> notes, writes |-> <<notes>>]
Throw_Unrecorded(message) ==
    [next |-> "throw", notes |-> errorNotes(message), writes |-> <<>>]
Throw(message) ==
    [next |-> "throw", notes |-> errorNotes(message), writes |-> <<errorNotes(message)>>]

\* handleNewPosition(plan, context), up to `await executeOrder(entryOrder)`
handleNewPosition_NoSizeCheck(p, c) ==
    IF c.hasOpenPosition
    THEN Return(c.previousNotes)
    ELSE IF ~c.indicators.defined
    THEN Throw("Cannot read properties of undefined (reading 'lastPrice')")
    ELSE [next |-> "entry", notes |-> c.previousNotes, writes |-> <<>>]
handleNewPosition_MemoryGated(p, c) ==
    IF c.hasOpenPosition \/ c.previousNotes.lastTrade.result = "Open"
    THEN Return(c.previousNotes)
    ELSE IF ~c.indicators.defined
    THEN Throw("Cannot read properties of undefined (reading 'lastPrice')")
    ELSE IF calculateTradeSize(c.availableMargin, c.indicators.lastPrice) <= 0
    THEN Return(WithObservation(c.previousNotes, "Trade size was zero, aborted entry."))
    ELSE [next |-> "entry", notes |-> c.previousNotes, writes |-> <<>>]
handleNewPosition(p, c) ==
    IF c.hasOpenPosition
    THEN Return(c.previousNotes)
    ELSE IF ~c.indicators.defined
    THEN Throw("Cannot read properties of undefined (reading 'lastPrice')")
    ELSE IF calculateTradeSize(c.availableMargin, c.indicators.lastPrice) <= 0
    THEN Return(WithObservation(c.previousNotes, "Trade size was zero, aborted entry."))
    ELSE [next |-> "entry", notes |-> c.previousNotes, writes |-> <<>>]

\* handlePositionExit(plan, context)
handlePositionExit_Unguarded(p, c) ==
    Return(WithObservation(c.previousNotes,
           "AI recommended an exit, but the logic is not yet implemented."))
handlePositionExit(p, c) ==
    IF ~c.hasOpenPosition
    THEN Return(c.previousNotes)
    ELSE Return(WithObservation(c.previousNotes,
           "AI recommended an exit, but the logic is not yet implemented."))

\* handleStopLossAdjustment(plan, context)
handleStopLossAdjustment(p, c) ==
    IF ~c.hasOpenPosition \/ Len(c.openOrders) = 0
    THEN Return(c.previousNotes)
    ELSE Return(WithObservation(c.previousNotes,
           "AI recommended a SL adjustment, but the logic is not yet implemented."))

\* tradingLoop from the oracle's answer to the first gateway request or the end
Dispatch(p, c) ==
    IF p.failed
    THEN Throw("oracle request failed")
    ELSE IF p.action = Undefined
    THEN Return(WithObservation(c.previousNotes, "AI failed to return a valid plan."))
    ELSE CASE Route(p.action) = "handleNewPosition" -> handleNewPosition(p, c)
           [] Route(p.action) = "handleStopLossAdjustment" -> handleStopLossAdjustment(p, c)
           [] Route(p.action) = "handlePositionExit" -> handlePositionExit(p, c)
           [] OTHER -> Return(WithObservation(c.previousNotes, "AI recommended HOLD."))

\* entryResponse && entryResponse.sendStatus.status === 'placed'
EntryPlaced_Always(status) == TRUE
EntryPlaced(status) == status = "placed"

\* The notes handleNewPosition returns after an acknowledged entry.
newNotes(p, currentPrice) ==
    [hasLastTrade |-> TRUE,
     lastTrade |-> [action |-> p.action, result |-> "Open", reason |-> "reason",
                    entryPrice |-> currentPrice, exitPrice |-> 0],
     generalObservations |-> "Successfully entered a " \o p.action \o " position."]

\* executeOrder(orderDetails) under IS_LIVE_TRADING_ENABLED = live: with live
\* trading off it answers "placed" and sends nothing; otherwise it takes a
\* nonce, sends the request and returns the exchange's answer (or throws when
\* the request fails).
executeOrder_AlwaysSends(live, answer) == [status |-> answer, sent |-> TRUE]
executeOrder_SwallowsFailure(live, answer) ==
    IF ~live
    THEN [status |-> "placed", sent |-> FALSE]
    ELSE [status |-> IF answer = "throw" THEN "placed" ELSE answer, sent |-> TRUE]
executeOrder(live, answer) ==
    IF ~live
    THEN [status |-> "placed", sent |-> FALSE]
    ELSE [status |-> answer, sent |-> TRUE]

\* cancelOrder(orderId) under IS_LIVE_TRADING_ENABLED = live: with live trading
\* off it answers "cancelled" and sends nothing; otherwise it takes a nonce,
\* sends the request and returns the exchange's answer, or a "failed" status
\* when the request fails.
cancelOrder(live, answer) ==
    IF ~live
    THEN [status |-> "cancelled", sent |-> FALSE]
    ELSE [status |-> IF answer = "throw" THEN "failed" ELSE answer, sent |-> TRUE]

\* What the exchange answers to cancelorder for `orderId`.
CancelAnswer(orders, orderId) ==
    IF \E o \in orders : o.id = orderId THEN "cancelled" ELSE "notFound"

\* The resting orders after the exchange answered a cancelorder with `status`.
ExchangeAfterCancel(orders, orderId, status) ==
    IF status = "cancelled" THEN {o \in orders : o.id # orderId} ELSE orders

\* runBot arms the timer of the next run in its finally block, after
\* `await tradingLoop()`: no run is pending while a cycle is in progress.
TimerArmedAtStart_setInterval == TRUE
TimerArmedAtStart == FALSE

\* The messages of the errors a cycle can throw.
ErrorMessages ==
    {"request failed", "oracle request failed",
     "Cannot read properties of undefined (reading 'lastPrice')"}

\* The cycle went through tradingLoop's catch block.
CycleFailed(writes) ==
    \E i \in 1..Len(writes) : \E m \in ErrorMessages : writes[i] = errorNotes(m)

\* runBot's finally block runs whether tradingLoop failed or not.
runBot_OnSuccessOnly(failed) == ~failed
runBot_finally(failed) == TRUE

---------------------------------------------------------------------------
(* Inputs of a cycle *)

Margins == {1, 1000}            \* accounts.flex.availableMargin
Prices == {50000}               \* indicators.lastPrice
PlanPrices == {49000}           \* strategyPlan.price
Answers == {"placed", "rejected", "throw"}
Envs == [entry : Answers, stop : Answers, writeOk : BOOLEAN]
NoEnv == [entry |-> "placed", stop |-> "placed", writeOk |-> TRUE]

\* What analyzeWithDeepseek can return: the five documented plans, a plan with
\* an action outside the switch, a plan without action, or a failed request.
Plans ==
    {[action |-> a, orderType |-> "mkt", price |-> NoNumber, failed |-> FALSE] :
        a \in EntryActions}
    \cup {[action |-> a, orderType |-> "lmt", price |-> q, failed |-> FALSE] :
        a \in EntryActions, q \in PlanPrices}
    \cup {[action |-> "ADJUST_SL", orderType |-> Undefined, price |-> q, failed |-> FALSE] :
        q \in PlanPrices}
    \cup {[action |-> a, orderType |-> Undefined, price |-> NoNumber, failed |-> FALSE] :
        a \in {"HOLD", "EXIT_POSITION", "hold", Undefined}}
    \cup {[action |-> Undefined, orderType |-> Undefined, price |-> NoNumber, failed |-> TRUE]}

NoSnapshot == [position |-> 0, openOrders |-> {}]

\* Orders and order ids handed to the gateway functions called directly.
GatewayOrders ==
    {entryOrder(p, 100) : p \in {q \in Plans : q.action \in EntryActions}}
    \cup {stopLossOrder(p, 100, 50000) : p \in {q \in Plans : q.action \in EntryActions}}
OrderIds == 1..2

NoCall == [op |-> Undefined, live |-> TRUE, status |-> Undefined,
           nonceBefore |-> 0, requestsBefore |-> 0, before |-> NoSnapshot]

---------------------------------------------------------------------------
(* Initial state *)

InitNonce ==
    /\ nonceCounter = 0
    /\ now = 0
    /\ lastNonce = NoNonce
    /\ mark = NoNonce
    /\ sinceMark = 0
    /\ calls = 0

InitCycle ==
    /\ pc = "idle"
    /\ cycle = 0
    /\ notesFile = NoFile
    /\ ctx = NoContext
    /\ plan = NoPlan
    /\ env = NoEnv
    /\ atStart = NoSnapshot
    /\ log = <<>>
    /\ written = <<>>
    /\ fileOps = <<>>

InitExchange ==
    /\ position = 0
    /\ openOrders = {}
    /\ nextOrderId = 1

\* main() calls runBot(): the first run is pending.
InitSchedule ==
    /\ timer = TRUE
    /\ running = 0

\* The three credentials of the file, each present or missing.
Credentials == [key : BOOLEAN, secret : BOOLEAN, oracle : BOOLEAN]
AllCredentials == [key |-> TRUE, secret |-> TRUE, oracle |-> TRUE]
NotStarted == [state |-> "unstarted", credentials |-> AllCredentials]

NoReads == [issued |-> <<>>, finished |-> {}, result |-> "pending"]

NoOrders == [action |-> Undefined, currentPrice |-> 0, entry |-> <<>>, stop |-> <<>>]

NoSizing == [availableMargin |-> 0, currentPrice |-> 0, tradeSizeBTC |-> 0]

Init ==
    /\ InitNonce
    /\ InitCycle
    /\ InitExchange
    /\ InitSchedule
    /\ call = NoCall
    /\ sizing = NoSizing
    /\ signed = <<>>
    /\ built = NoOrders
    /\ reads = NoReads
    /\ startup = NotStarted

---------------------------------------------------------------------------
(* Actions of the nonce generator *)

\* One createNonce() call; the observer may mark the value returned.
CallCreateNonce ==
    /\ \E markIt \in BOOLEAN :
        /\ markIt => (mark = NoNonce /\ calls < MaxMarked)
        /\ lastNonce' = createNonce(now, nonceCounter).nonce
        /\ nonceCounter' = createNonce(now, nonceCounter).counter
        /\ mark' = IF markIt THEN createNonce(now, nonceCounter).nonce ELSE mark
        /\ sinceMark' = IF mark = NoNonce THEN 0
                        ELSE Min(sinceMark + 1, NONCE_WRAP + 2)
        /\ calls' = Min(calls + 1, MaxMarked)
    /\ UNCHANGED <<now, cycleVars, exchangeVars, schedVars, call, sizing, signed, built, reads,
                   startup>>

\* The clock moves on to the next millisecond.
Tick ==
    /\ now < MaxNow
    /\ now' = now + 1
    /\ UNCHANGED <<nonceCounter, lastNonce, mark, sinceMark, calls, cycleVars,
                   exchangeVars, schedVars, call, sizing, signed, built, reads,
                   startup>>

---------------------------------------------------------------------------
(* signRequest called directly *)

\* Endpoints with and without the '/derivatives' prefix, nonces and bodies; the
\* nonces and bodies include pairs whose concatenation is the same text.
SignedEndpoints ==
    {"/derivatives/api/v3/sendorder", "/api/v3/sendorder",
     "/derivatives/api/v3/cancelorder"}
SignedNonces == {"170000000000000001", "170000000000000002", "70000000000000001"}
SignedBodies == {"", "size=1", "size="}

\* The private request functions: endpoint and body of the request each builds.
PrivateRequests ==
    {[function |-> "getAccountData", endpoint |-> "/derivatives/api/v3/accounts",
      data |-> ""],
     [function |-> "getOpenPositions", endpoint |-> "/derivatives/api/v3/openpositions",
      data |-> ""],
     [function |-> "getOpenOrders", endpoint |-> "/derivatives/api/v3/openorders",
      data |-> ""],
     [function |-> "executeOrder", endpoint |-> "/derivatives/api/v3/sendorder",
      data |-> "orderType=mkt&symbol=pf_xbtusd&side=buy&size=0.01"],
     [function |-> "cancelOrder", endpoint |-> "/derivatives/api/v3/cancelorder",
      data |-> "order_id=1"]}

\* signRequest(endpoint, nonce, postData) under KRAKEN_API_SECRET
signRequest_Call ==
    /\ \E endpoint \in SignedEndpoints, nonce \in SignedNonces, postData \in SignedBodies :
        LET this == [function |-> "signRequest",
                     endpoint |-> endpoint, nonce |-> nonce, postData |-> postData,
                     authent |-> signRequest("KRAKEN_API_SECRET", endpoint, nonce,
                                             postData),
                     headers |-> <<>>]
        IN  signed' = IF signed = <<>> THEN <<this>>
                      ELSE <<signed[Len(signed)], this>>
    /\ UNCHANGED <<nonceVars, cycleVars, exchangeVars, schedVars, call, sizing, built, reads,
                   startup>>

\* One private request function up to its axios call: createNonce(),
\* signRequest(endpoint, nonce, data) and the headers of the request.
PrivateRequest_Call ==
    /\ nonceCounter < MaxSigned
    /\ \E f \in PrivateRequests :
        LET nonce == NonceText(now, ResetCounter(nonceCounter))
            authent == signRequest("KRAKEN_API_SECRET", f.endpoint, nonce, f.data)
            this == [function |-> f.function,
                     endpoint |-> f.endpoint, nonce |-> nonce, postData |-> f.data,
                     authent |-> authent,
                     headers |-> <<[Nonce |-> nonce, Authent |-> authent]>>]
        IN  /\ signed' = IF signed = <<>> THEN <<this>>
                         ELSE <<signed[Len(signed)], this>>
            /\ lastNonce' = createNonce(now, nonceCounter).nonce
            /\ nonceCounter' = createNonce(now, nonceCounter).counter
    /\ UNCHANGED <<now, mark, sinceMark, calls, cycleVars, exchangeVars, schedVars,
                   call, sizing, built, reads, startup>>

---------------------------------------------------------------------------
(* Startup *)

\* !KRAKEN_API_KEY || !KRAKEN_API_SECRET || !DEEPSEEK_API_KEY is false
CredentialsPresent_ExchangeOnly(c) == c.key /\ c.secret
CredentialsPresent(c) == c.key /\ c.secret /\ c.oracle

\* main(): process.exit(1) when a credential is missing, runBot() otherwise.
main ==
    /\ startup.state = "unstarted"
    /\ \E c \in Credentials :
        startup' = [state |-> IF CredentialsPresent(c) THEN "running" ELSE "exited",
                    credentials |-> c]
    /\ UNCHANGED <<nonceVars, cycleVars, exchangeVars, schedVars, call, sizing, signed,
                   built, reads>>

\* The process is past main() and alive.
Running == startup.state = "running"

---------------------------------------------------------------------------
(* The concurrent reads of tradingLoop *)

\* Promise.all([fetchMarketData(), getAccountData(), getOpenPositions(),
\* getOpenOrders()]): the calls in the order the array is evaluated, and
\* whether each takes a nonce.
ReadCalls ==
    <<[function |-> "fetchMarketData", private |-> FALSE],
      [function |-> "getAccountData", private |-> TRUE],
      [function |-> "getOpenPositions", private |-> TRUE],
      [function |-> "getOpenOrders", private |-> TRUE]>>

\* A private request made before the reads of this cycle: one createNonce().
createNonce_Earlier ==
    /\ reads = NoReads
    /\ lastNonce' = createNonce(now, nonceCounter).nonce
    /\ nonceCounter' = createNonce(now, nonceCounter).counter
    /\ UNCHANGED <<now, mark, sinceMark, calls, cycleVars, exchangeVars, schedVars,
                   call, sizing, signed, built, reads, startup>>

\* The next call of the array runs up to its await: a private read takes its
\* nonce, signs and hands the request to axios. The clock may move between two
\* calls (Tick), no completion is handled before the array is built.
Read_Issue ==
    /\ Len(reads.issued) < Len(ReadCalls)
    /\ LET f == ReadCalls[Len(reads.issued) + 1]
           n == createNonce(now, nonceCounter)
       IN  IF f.private
           THEN /\ reads' = [reads EXCEPT !.issued =
                                Append(@, [function |-> f.function, private |-> TRUE,
                                           nonce |-> n.nonce])]
                /\ lastNonce' = n.nonce
                /\ nonceCounter' = n.counter
           ELSE /\ reads' = [reads EXCEPT !.issued =
                                Append(@, [function |-> f.function, private |-> FALSE,
                                           nonce |-> NoNonce])]
                /\ UNCHANGED <<lastNonce, nonceCounter, startup>>
    /\ UNCHANGED <<now, mark, sinceMark, calls, cycleVars, exchangeVars, schedVars,
                   call, sizing, signed, built, startup>>

\* One of the requests settles, in any order: Promise.all rejects on the first
\* rejection and resolves when the last request has resolved.
Read_Settle ==
    /\ Len(reads.issued) = Len(ReadCalls)
    /\ \E i \in (1..Len(ReadCalls)) \ reads.finished, ok \in BOOLEAN :
        reads' = [reads EXCEPT
                    !.finished = @ \cup {i},
                    !.result = IF reads.result # "pending" THEN @
                               ELSE IF ~ok THEN "rejected"
                               ELSE IF reads.finished \cup {i} = 1..Len(ReadCalls)
                               THEN "combined" ELSE "pending"]
    /\ UNCHANGED <<nonceVars, cycleVars, exchangeVars, schedVars, call, sizing, signed,
                   built, startup>>

---------------------------------------------------------------------------
(* The orders of handleNewPosition built directly *)

\* Margins that give a positive size, and reference prices in USD from one
\* dollar up; none puts the stop price on a half dollar.
OrderMargins == {20, 1000}
ReferencePrices ==
    {1, 10, 24, 26, 100, 1000, 20000, 30000, 49999, 50000, 50001, 65000, 70000, 100000}

\* handleNewPosition: entryOrder and stopLossOrder as built from the plan, the
\* margin and the current price
handleNewPosition_Orders ==
    /\ \E p \in {e \in Plans : e.action \in EntryActions},
          m \in OrderMargins, q \in ReferencePrices :
        LET tradeSizeBTC == calculateTradeSize(m, q)
        IN  /\ tradeSizeBTC > 0
            /\ built' = [action |-> p.action, currentPrice |-> q,
                         entry |-> <<entryOrder(p, tradeSizeBTC)>>,
                         stop |-> <<stopLossOrder(p, tradeSizeBTC, q)>>]
    /\ UNCHANGED <<nonceVars, cycleVars, exchangeVars, schedVars, call, sizing, signed, reads,
                   startup>>

---------------------------------------------------------------------------
(* The position sizer called directly *)

\* Available margins in USD and prices in USD per BTC. No pair of the grid
\* puts the size on a half of the fourth decimal, where toFixed(4) rounds by
\* the binary expansion of the quotient.
SizerMargins == {0, 1, 2, 10, 19, 20, 24, 100, 500, 1000, 1200, 2000, 5000, 10000}
SizerPrices == {20000, 30000, 49999, 50000, 50001, 65000, 70000, 100000}

\* calculateTradeSize(availableMargin, currentPrice)
calculateTradeSize_Call ==
    /\ \E m \in SizerMargins, q \in SizerPrices :
        sizing' = [availableMargin |-> m, currentPrice |-> q,
                   tradeSizeBTC |-> calculateTradeSize(m, q)]
    /\ UNCHANGED <<nonceVars, cycleVars, exchangeVars, schedVars, call, signed, built, reads,
                   startup>>

---------------------------------------------------------------------------
(* Actions of the gateway functions called directly *)

\* The state a gateway call starts from, kept to compare the state after it with.
Called(op, live, status) ==
    [op |-> op, live |-> live, status |-> status,
     nonceBefore |-> nonceCounter, requestsBefore |-> Len(log),
     before |-> [position |-> position, openOrders |-> openOrders]]

\* executeOrder(orderDetails)
Gateway_executeOrder ==
    /\ Len(log) < MaxRequests
    /\ \E live \in BOOLEAN, order \in GatewayOrders, answer \in Answers :
        LET r == executeOrder(live, answer)
            x == ExchangeAfterOrder(position, openOrders, nextOrderId, order, r.status)
        IN  /\ call' = Called("sendorder", live, r.status)
            /\ nonceCounter' = IF r.sent THEN AfterNonces(now, nonceCounter, 1) ELSE nonceCounter
            /\ log' = IF r.sent THEN Append(log, Sent("sendorder", order, r.status)) ELSE log
            /\ position' = IF r.sent THEN x.position ELSE position
            /\ openOrders' = IF r.sent THEN x.openOrders ELSE openOrders
            /\ nextOrderId' = IF r.sent THEN x.nextOrderId ELSE nextOrderId
    /\ UNCHANGED <<now, lastNonce, mark, sinceMark, calls, pc, cycle, notesFile, ctx,
                   plan, env, atStart, written, fileOps, schedVars, sizing, signed, built, reads,
                   startup>>

\* cancelOrder(orderId)
Gateway_cancelOrder ==
    /\ Len(log) < MaxRequests
    /\ \E live \in BOOLEAN, orderId \in OrderIds, fails \in BOOLEAN :
        LET r == cancelOrder(live, IF fails THEN "throw"
                                   ELSE CancelAnswer(openOrders, orderId))
        IN  /\ call' = Called("cancelorder", live, r.status)
            /\ nonceCounter' = IF r.sent THEN AfterNonces(now, nonceCounter, 1) ELSE nonceCounter
            /\ log' = IF r.sent THEN Append(log, SentCancel(orderId, r.status)) ELSE log
            /\ openOrders' = IF r.sent
                             THEN ExchangeAfterCancel(openOrders, orderId, r.status)
                             ELSE openOrders
    /\ UNCHANGED <<now, lastNonce, mark, sinceMark, calls, pc, cycle, notesFile, ctx,
                   plan, env, atStart, written, fileOps, position, nextOrderId,
                   schedVars, sizing, signed, built, reads, startup>>

---------------------------------------------------------------------------
(* Actions of the decision cycle *)

\* The writeNotes calls that end a cycle.
Finish(writes, soFar, ops, ok, requests) ==
    /\ written' = soFar \o writes
    /\ notesFile' = WriteAll(notesFile, writes, ok)
    /\ fileOps' = ops \o [i \in 1..Len(writes) |-> WriteOp(requests)]
    /\ pc' = "done"

\* runBot is called and tradingLoop runs up to the oracle request: readNotes,
\* then the four reads at once (getAccountData, getOpenPositions and
\* getOpenOrders take a nonce each).
Fetch(c, e, fetched) ==
    /\ timer
    /\ cycle < MaxCycles
    /\ timer' = TimerArmedAtStart
    /\ running' = running + 1
    /\ nonceCounter' = AfterNonces(now, nonceCounter, 3)
    /\ env' = e
    /\ plan' = NoPlan
    /\ log' = <<>>
    /\ atStart' = [position |-> position, openOrders |-> openOrders]
    /\ IF fetched
       THEN /\ ctx' = c
            /\ pc' = "analyze"
            /\ written' = <<>>
            /\ fileOps' = <<ReadOp>>
            /\ UNCHANGED notesFile
       ELSE /\ ctx' = NoContext
            /\ Finish(Throw("request failed").writes, <<>>, <<ReadOp>>, e.writeOk,
                      FetchRequests)
    /\ UNCHANGED <<now, lastNonce, mark, sinceMark, calls, cycle, exchangeVars, call, sizing, signed, built, reads,
                   startup>>

\* The cycle as tradingLoop builds its context.
tradingLoop_Fetch ==
    \E m \in Margins, e \in Envs, fetched \in BOOLEAN :
        Fetch(accountContext(position, openOrders, m, readNotes(notesFile)), e, fetched)

\* The cycle with the handlers given the market context they read.
tradingLoop_FetchFull ==
    \E m \in Margins, q \in Prices, e \in Envs, fetched \in BOOLEAN :
        Fetch(fullContext(position, openOrders, m, readNotes(notesFile), q), e, fetched)

\* tradingLoop from the oracle's answer to the first gateway request or the end
tradingLoop_Analyze ==
    /\ pc = "analyze"
    /\ \E p \in Plans :
        /\ plan' = p
        /\ IF Dispatch(p, ctx).next = "entry"
           THEN /\ pc' = "entry"
                /\ UNCHANGED <<notesFile, written, fileOps, startup>>
           ELSE Finish(Dispatch(p, ctx).writes, written, fileOps, env.writeOk,
                       FetchRequests + Len(log))
    /\ UNCHANGED <<nonceVars, cycle, ctx, env, atStart, log, exchangeVars, schedVars, call, sizing, signed, built, reads,
                   startup>>

\* analyzeWithDeepseek: axios.post is given no timeout, and the oracle never
\* answers: the await never settles.
analyzeWithDeepseek_NoAnswer ==
    /\ pc = "analyze"
    /\ pc' = "suspended"
    /\ UNCHANGED <<nonceVars, cycle, notesFile, ctx, plan, env, atStart, log, written,
                   fileOps, exchangeVars, schedVars, call, sizing, signed, built, reads,
                   startup>>

\* handleNewPosition: await executeOrder(entryOrder) and what follows it
handleNewPosition_Entry ==
    /\ pc = "entry"
    /\ LET size == calculateTradeSize(ctx.availableMargin, ctx.indicators.lastPrice)
           order == entryOrder(plan, size)
           r == executeOrder(IS_LIVE_TRADING_ENABLED, env.entry)
           x == ExchangeAfterOrder(position, openOrders, nextOrderId, order, r.status)
           sent == IF r.sent THEN Append(log, Sent("sendorder", order, r.status)) ELSE log
       IN  /\ nonceCounter' = IF r.sent THEN AfterNonces(now, nonceCounter, 1) ELSE nonceCounter
           /\ log' = sent
           /\ position' = IF r.sent THEN x.position ELSE position
           /\ openOrders' = IF r.sent THEN x.openOrders ELSE openOrders
           /\ nextOrderId' = IF r.sent THEN x.nextOrderId ELSE nextOrderId
           /\ CASE EntryPlaced(r.status) ->
                    /\ pc' = "stop"
                    /\ UNCHANGED <<notesFile, written, fileOps, startup>>
                [] r.status = "rejected" ->
                    Finish(Return(WithObservation(ctx.previousNotes,
                             "Attempted to " \o plan.action \o " but the order failed.")).writes,
                           written, fileOps, env.writeOk, FetchRequests + Len(sent))
                [] OTHER ->
                    Finish(Throw("request failed").writes, written, fileOps, env.writeOk,
                           FetchRequests + Len(sent))
    /\ UNCHANGED <<now, lastNonce, mark, sinceMark, calls, cycle, ctx, plan, env, atStart,
                   schedVars, call, sizing, signed, built, reads, startup>>

\* handleNewPosition: await executeOrder(stopLossOrder) and the notes returned
handleNewPosition_Stop ==
    /\ pc = "stop"
    /\ LET size == calculateTradeSize(ctx.availableMargin, ctx.indicators.lastPrice)
           order == stopLossOrder(plan, size, ctx.indicators.lastPrice)
           r == executeOrder(IS_LIVE_TRADING_ENABLED, env.stop)
           x == ExchangeAfterOrder(position, openOrders, nextOrderId, order, r.status)
           sent == IF r.sent THEN Append(log, Sent("sendorder", order, r.status)) ELSE log
       IN  /\ nonceCounter' = IF r.sent THEN AfterNonces(now, nonceCounter, 1) ELSE nonceCounter
           /\ log' = sent
           /\ position' = IF r.sent THEN x.position ELSE position
           /\ openOrders' = IF r.sent THEN x.openOrders ELSE openOrders
           /\ nextOrderId' = IF r.sent THEN x.nextOrderId ELSE nextOrderId
           /\ IF r.status = "throw"
              THEN Finish(Throw("request failed").writes, written, fileOps, env.writeOk,
                          FetchRequests + Len(sent))
              ELSE Finish(Return(newNotes(plan, ctx.indicators.lastPrice)).writes,
                          written, fileOps, env.writeOk, FetchRequests + Len(sent))
    /\ UNCHANGED <<now, lastNonce, mark, sinceMark, calls, cycle, ctx, plan, env, atStart,
                   schedVars, call, sizing, signed, built, reads, startup>>

\* runBot's finally block: tradingLoop has returned, the next run is scheduled.
runBot_Schedule ==
    /\ pc = "done"
    /\ runBot_finally(CycleFailed(written))
    /\ pc' = "idle"
    /\ cycle' = cycle + 1
    /\ timer' = TRUE
    /\ running' = running - 1
    /\ ctx' = NoContext
    /\ plan' = NoPlan
    /\ env' = NoEnv
    /\ atStart' = NoSnapshot
    /\ log' = <<>>
    /\ written' = <<>>
    /\ fileOps' = <<>>
    /\ UNCHANGED <<nonceVars, notesFile, exchangeVars, call, sizing, signed, built, reads,
                   startup>>

---------------------------------------------------------------------------
(* Actions of the exchange between two cycles *)

\* A resting limit entry order fills.
ExchangeFillsLimit ==
    /\ pc = "idle"
    /\ \E o \in openOrders :
        /\ o.orderType = "lmt"
        /\ position' = position + Signed(o.side, o.size)
        /\ openOrders' = openOrders \ {o}
    /\ UNCHANGED <<nonceVars, cycleVars, nextOrderId, schedVars, call, sizing, signed, built, reads,
                   startup>>

\* A resting stop order triggers and executes.
ExchangeTriggersStop ==
    /\ pc = "idle"
    /\ \E o \in openOrders :
        /\ o.orderType = "stp"
        /\ position' = position + Signed(o.side, o.size)
        /\ openOrders' = openOrders \ {o}
    /\ UNCHANGED <<nonceVars, cycleVars, nextOrderId, schedVars, call, sizing, signed, built, reads,
                   startup>>

---------------------------------------------------------------------------
(* The memory-aware loop: tradingLoop of src/unnamed/part_001, second draft *)

\* analyzeWithDeepseek there answers "buy", "sell" or "hold", or throws.
Recommendations ==
    {[action |-> a, orderType |-> "mkt", price |-> NoNumber, failed |-> FALSE] :
        a \in {"buy", "sell", "hold"}}
    \cup {[action |-> Undefined, orderType |-> Undefined, price |-> NoNumber,
           failed |-> TRUE]}

\* The answers of a cycle and the setting of IS_LIVE_TRADING_ENABLED of the draft.
MemoryEnvs == [entry : Answers, stop : Answers, writeOk : BOOLEAN, live : BOOLEAN]

\* readNotes, getAccountData, getOpenPositions and fetchMarketData precede the
\* oracle request: three requests.
MemoryFetchRequests == 3

\* if (!hasOpenPosition && previousNotes.lastTrade.action !== "none") { ... }
markClosed_Kept(notes, hasPosition) == notes
markClosed(notes, hasPosition) ==
    IF ~hasPosition /\ notes.lastTrade.action # "none"
    THEN [notes EXCEPT !.lastTrade.result = "Closed", !.lastTrade.action = "none"]
    ELSE notes

\* What the loop holds when it asks the oracle: previousNotes is the object
\* readNotes returned, as the closed-trade check left it; `loaded` keeps the
\* value readNotes returned.
memoryContext(pos, availableMargin, notes, lastPrice) ==
    [hasOpenPosition |-> hasOpenPosition(pos),
     position |-> findPosition(pos),
     openOrders |-> <<>>,
     availableMargin |-> availableMargin,
     previousNotes |-> markClosed(notes, hasOpenPosition(pos)),
     indicators |-> [defined |-> TRUE, lastPrice |-> lastPrice],
     loaded |-> notes]

\* newNotes after an acknowledged entry
enteredNotes(recommendation, currentPrice) ==
    [hasLastTrade |-> TRUE,
     lastTrade |-> [action |-> recommendation.action, result |-> "Open",
                    reason |-> "reason", entryPrice |-> currentPrice, exitPrice |-> 0],
     generalObservations |->
        "Entered a " \o recommendation.action \o " position based on: reason"]

\* The entry and stop orders of the loop (market entry, stop on the other side).
marketEntryOrder(recommendation, tradeSizeBTC) ==
    [orderType |-> "mkt", side |-> recommendation.action, size |-> tradeSizeBTC,
     limitPrice |-> NoNumber, stopPrice |-> NoNumber]

protectiveStopOrder(recommendation, tradeSizeBTC, currentPrice) ==
    LET long == recommendation.action = "buy"
        stop == roundedStopPrice(IF long THEN "ENTER_LONG" ELSE "ENTER_SHORT",
                                 currentPrice)
    IN  [orderType |-> "stp",
         side |-> IF long THEN "sell" ELSE "buy",
         size |-> tradeSizeBTC,
         limitPrice |-> IF long THEN stop - 1 ELSE stop + 1,
         stopPrice |-> stop]

\* tradingLoop up to the oracle request: readNotes, the three reads at once
\* (two of them take a nonce), the closed-trade check. A failed read, or notes
\* without lastTrade when there is no position, goes to the catch block, which
\* writes nothing.
tradingLoop_Memory_Fetch ==
    /\ timer
    /\ cycle < MaxCycles
    /\ timer' = TimerArmedAtStart
    /\ running' = running + 1
    /\ nonceCounter' = AfterNonces(now, nonceCounter, 2)
    /\ plan' = NoPlan
    /\ log' = <<>>
    /\ atStart' = [position |-> position, openOrders |-> openOrders]
    /\ written' = <<>>
    /\ fileOps' = <<ReadOp>>
    /\ \E m \in Margins, q \in Prices, e \in MemoryEnvs, fetched \in BOOLEAN :
        LET notes == readNotes(notesFile)
            thrown == ~fetched \/ (~hasOpenPosition(position) /\ ~notes.hasLastTrade)
        IN  /\ env' = e
            /\ ctx' = IF thrown THEN NoContext ELSE memoryContext(position, m, notes, q)
            /\ pc' = IF thrown THEN "done" ELSE "analyze"
    /\ UNCHANGED <<now, lastNonce, mark, sinceMark, calls, cycle, notesFile, exchangeVars,
                   call, sizing, signed, built, reads, startup>>

\* tradingLoop from the oracle's answer to the entry request or the end
tradingLoop_Memory_Analyze ==
    /\ pc = "analyze"
    /\ \E r \in Recommendations :
        /\ plan' = r
        /\ IF r.failed
           THEN /\ pc' = "done"
                /\ UNCHANGED <<notesFile, written, fileOps>>
           ELSE IF ~ctx.hasOpenPosition /\ r.action \in {"buy", "sell"}
           THEN IF calculateTradeSize(ctx.availableMargin, ctx.indicators.lastPrice) <= 0
                THEN Finish(<<ctx.previousNotes>>, written, fileOps, env.writeOk,
                            MemoryFetchRequests)
                ELSE /\ pc' = "entry"
                     /\ UNCHANGED <<notesFile, written, fileOps>>
           ELSE Finish(<<WithObservation(ctx.previousNotes,
                           "Market conditions did not warrant a new trade.")>>,
                       written, fileOps, env.writeOk, MemoryFetchRequests)
    /\ UNCHANGED <<nonceVars, cycle, ctx, env, atStart, log, exchangeVars, schedVars, call,
                   sizing, signed, built, reads, startup>>

\* tradingLoop: await executeOrder(entryOrder) and the test of its answer
tradingLoop_Memory_Entry ==
    /\ pc = "entry"
    /\ LET size == calculateTradeSize(ctx.availableMargin, ctx.indicators.lastPrice)
           order == marketEntryOrder(plan, size)
           r == executeOrder(env.live, env.entry)
           x == ExchangeAfterOrder(position, openOrders, nextOrderId, order, r.status)
           sent == IF r.sent THEN Append(log, Sent("sendorder", order, r.status)) ELSE log
       IN  /\ nonceCounter' = IF r.sent THEN AfterNonces(now, nonceCounter, 1) ELSE nonceCounter
           /\ log' = sent
           /\ position' = IF r.sent THEN x.position ELSE position
           /\ openOrders' = IF r.sent THEN x.openOrders ELSE openOrders
           /\ nextOrderId' = IF r.sent THEN x.nextOrderId ELSE nextOrderId
           /\ CASE EntryPlaced(r.status) ->
                    /\ pc' = "stop"
                    /\ UNCHANGED <<notesFile, written, fileOps>>
                [] r.status = "rejected" ->
                    Finish(<<ctx.previousNotes>>, written, fileOps, env.writeOk,
                           MemoryFetchRequests + Len(sent))
                [] OTHER ->
                    /\ pc' = "done"
                    /\ UNCHANGED <<notesFile, written, fileOps>>
    /\ UNCHANGED <<now, lastNonce, mark, sinceMark, calls, cycle, ctx, plan, env, atStart,
                   schedVars, call, sizing, signed, built, reads, startup>>

\* tradingLoop: await executeOrder(stopLossOrder), then writeNotes(newNotes)
tradingLoop_Memory_Stop ==
    /\ pc = "stop"
    /\ LET size == calculateTradeSize(ctx.availableMargin, ctx.indicators.lastPrice)
           order == protectiveStopOrder(plan, size, ctx.indicators.lastPrice)
           r == executeOrder(env.live, env.stop)
           x == ExchangeAfterOrder(position, openOrders, nextOrderId, order, r.status)
           sent == IF r.sent THEN Append(log, Sent("sendorder", order, r.status)) ELSE log
       IN  /\ nonceCounter' = IF r.sent THEN AfterNonces(now, nonceCounter, 1) ELSE nonceCounter
           /\ log' = sent
           /\ position' = IF r.sent THEN x.position ELSE position
           /\ openOrders' = IF r.sent THEN x.openOrders ELSE openOrders
           /\ nextOrderId' = IF r.sent THEN x.nextOrderId ELSE nextOrderId
           /\ IF r.status = "throw"
              THEN /\ pc' = "done"
                   /\ UNCHANGED <<notesFile, written, fileOps>>
              ELSE Finish(<<enteredNotes(plan, ctx.indicators.lastPrice)>>, written,
                          fileOps, env.writeOk, MemoryFetchRequests + Len(sent))
    /\ UNCHANGED <<now, lastNonce, mark, sinceMark, calls, cycle, ctx, plan, env, atStart,
                   schedVars, call, sizing, signed, built, reads, startup>>

---------------------------------------------------------------------------
(* Specifications *)

\* The nonce generator called again and again while the clock runs.
NextNonce == CallCreateNonce \/ Tick
SpecNonce == Init /\ [][NextNonce]_vars

\* The process from main() on: the cycles of tradingLoop run only once main()
\* has called runBot().
NextStartup ==
    \/ main
    \/ (Running /\ tradingLoop_Fetch)
    \/ (Running /\ tradingLoop_Analyze)
    \/ (Running /\ analyzeWithDeepseek_NoAnswer)
    \/ (Running /\ runBot_Schedule)
SpecStartup == Init /\ [][NextStartup]_vars

\* The four reads of a cycle, issued together, after any number of earlier
\* private requests of the process.
NextReads == createNonce_Earlier \/ Tick \/ Read_Issue \/ Read_Settle
SpecReads == Init /\ [][NextReads]_vars

\* The entry and stop-loss orders built over a grid of plans and prices.
SpecOrders == Init /\ [][handleNewPosition_Orders]_vars

\* signRequest called twice and more, on any inputs.
NextSigner == signRequest_Call \/ PrivateRequest_Call \/ Tick
SpecSigner == Init /\ [][NextSigner]_vars

\* calculateTradeSize called over a grid of margins and prices.
SpecSizer == Init /\ [][calculateTradeSize_Call]_vars

\* The mutating gateway functions called one after the other.
NextGateway == Gateway_executeOrder \/ Gateway_cancelOrder
SpecGateway == Init /\ [][NextGateway]_vars

\* The decision cycle exactly as tradingLoop wires it.
NextWired ==
    \/ tradingLoop_Fetch
    \/ tradingLoop_Analyze
    \/ analyzeWithDeepseek_NoAnswer
    \/ runBot_Schedule
SpecWired == Init /\ [][NextWired]_vars

\* The decision cycle with the handlers given the full context, and the exchange.
NextHandlers ==
    \/ tradingLoop_FetchFull
    \/ tradingLoop_Analyze
    \/ analyzeWithDeepseek_NoAnswer
    \/ handleNewPosition_Entry
    \/ handleNewPosition_Stop
    \/ runBot_Schedule
    \/ ExchangeFillsLimit
    \/ ExchangeTriggersStop
SpecHandlers == Init /\ [][NextHandlers]_vars

\* The same under the scheduling Node guarantees: a pending timer fires and
\* runBot's finally block runs once tradingLoop has returned.
SpecHandlersFair ==
    /\ SpecHandlers
    /\ WF_vars(runBot_Schedule)
    /\ WF_vars(tradingLoop_FetchFull)

\* The memory-aware loop with the exchange.
NextMemory ==
    \/ tradingLoop_Memory_Fetch
    \/ tradingLoop_Memory_Analyze
    \/ tradingLoop_Memory_Entry
    \/ tradingLoop_Memory_Stop
    \/ runBot_Schedule
    \/ ExchangeTriggersStop
SpecMemory == Init /\ [][NextMemory]_vars

---------------------------------------------------------------------------
(* Claims *)

Viable(c) ==
    MINIMUM_TRADE_USD * 100 <= c.availableMargin * LEVERAGE * LEVERAGE_SAFETY_FACTOR_PCT

IsEntry(l) == l.op = "sendorder" /\ l.orderType \in {"mkt", "lmt"}
IsStop(l) == l.op = "sendorder" /\ l.orderType = "stp"

\* C2: a cycle that starts with no open position, receives ENTER_LONG and meets
\* an exchange that acknowledges the entry and the stop ends with one entry and
\* one stop submitted, and writes a memory whose lastTrade is open at the
\* current price.
C2_EntryEndsProtected ==
    (/\ pc = "done"
     /\ plan.action = "ENTER_LONG"
     /\ ~ctx.hasOpenPosition
     /\ Viable(ctx)
     /\ env.entry = "placed"
     /\ env.stop = "placed")
    => (/\ Len(log) = 2
        /\ IsEntry(log[1]) /\ log[1].status = "placed"
        /\ IsStop(log[2]) /\ log[2].status = "placed"
        /\ Len(written) = 1
        /\ written[1].hasLastTrade
        /\ written[1].lastTrade.result = "Open"
        /\ written[1].lastTrade.entryPrice = ctx.indicators.lastPrice)

\* C3: when the entry is acknowledged and the stop submission fails, the memory
\* written keeps the open trade and does not report a plain successful entry.
C3_UnprotectedIsFlagged ==
    (/\ pc = "done"
     /\ plan.action = "ENTER_LONG"
     /\ ~ctx.hasOpenPosition
     /\ Len(log) = 2
     /\ log[1].status = "placed"
     /\ log[2].status # "placed")
    => (/\ Len(written) = 1
        /\ written[1].hasLastTrade
        /\ written[1].lastTrade.result = "Open"
        /\ written[1].generalObservations
              # "Successfully entered a ENTER_LONG position.")

\* C4: when the exchange reported an open position of the instrument at the
\* start of the cycle, an ENTER_LONG or ENTER_SHORT plan sends no request, for
\* every order type and price of the plan.
C4_NoOrderWhenPositionOpen ==
    (atStart.position # 0 /\ plan.action \in EntryActions)
        => (log = <<>> /\ pc \notin {"entry", "stop"})

\* C4 witness: a limit ENTER_SHORT plan refused over an open position.
C4_Witness ==
    /\ pc = "done"
    /\ atStart.position # 0
    /\ plan.action = "ENTER_SHORT"
    /\ plan.orderType = "lmt"
    /\ log = <<>>

\* C5: an entry order is sent only when no earlier entry is live on the
\* exchange, neither as an open position nor as a resting limit entry order.
C5_OneEntryLive ==
    (Len(log) >= 1 /\ IsEntry(log[1]))
        => (/\ atStart.position = 0
            /\ \A o \in atStart.openOrders : o.orderType # "lmt")

\* C6: when the entry submission is rejected or fails, no stop is sent and the
\* memory written keeps lastTrade as it was loaded.
C6_RejectedEntryKeepsLastTrade ==
    (/\ pc = "done"
     /\ Len(log) >= 1
     /\ IsEntry(log[1])
     /\ log[1].status # "placed")
    => (/\ Len(log) = 1
        /\ Len(written) = 1
        /\ written[1].hasLastTrade = ctx.previousNotes.hasLastTrade
        /\ written[1].lastTrade = ctx.previousNotes.lastTrade)

\* C7: a cycle that starts with an open position and a stop order and receives
\* EXIT_POSITION cancels the stop and then sends a market order on the opposite
\* side with the position's size.
C7_ExitCancelsThenCloses ==
    (/\ pc = "done"
     /\ plan.action = "EXIT_POSITION"
     /\ ctx.hasOpenPosition
     /\ Len(ctx.openOrders) = 1)
    => (/\ Len(log) = 2
        /\ log[1].op = "cancelorder"
        /\ log[2].op = "sendorder"
        /\ log[2].orderType = "mkt"
        /\ log[2].side = (IF ctx.position.side = "long" THEN "sell" ELSE "buy")
        /\ log[2].size = ctx.position.size)

\* C8: a cycle that starts with an open position and a stop order and receives
\* the adjust-stop plan cancels the stop and then sends a stop order at the
\* plan's price with the size and side of the cancelled one.
C8_AdjustCancelsThenReplaces ==
    (/\ pc = "done"
     /\ plan.action = "ADJUST_SL"
     /\ ctx.hasOpenPosition
     /\ Len(ctx.openOrders) = 1)
    => (/\ Len(log) = 2
        /\ log[1].op = "cancelorder"
        /\ IsStop(log[2])
        /\ log[2].stopPrice = plan.price
        /\ log[2].side = ctx.openOrders[1].side
        /\ log[2].size = ctx.openOrders[1].size)

\* C9: in no reachable state are two stop orders outstanding for the instrument.
C9_NeverTwoStops == Cardinality(StopOrders(openOrders)) <= 1

\* C10: a cycle whose plan is HOLD sends no request and leaves the exchange's
\* position and open orders as they were, in every exchange state.
C10_HoldChangesNothing ==
    plan.action = "HOLD"
        => (/\ log = <<>>
            /\ pc \notin {"entry", "stop"}
            /\ position = atStart.position
            /\ openOrders = atStart.openOrders)

\* C10 witness: a HOLD cycle, following a HOLD cycle, over an open position
\* with its stop order.
C10_Witness ==
    /\ pc = "done"
    /\ plan.action = "HOLD"
    /\ ctx.previousNotes.generalObservations = "AI recommended HOLD."
    /\ atStart.position # 0
    /\ StopOrders(atStart.openOrders) # {}
    /\ log = <<>>

\* The actions tradingLoop's switch names.
RecognizedActions == EntryActions \cup {"ADJUST_SL", "EXIT_POSITION", "HOLD"}

\* The cycle fetched its context and received the oracle's plan.
Analyzed == pc = "done" /\ ctx # NoContext /\ ~plan.failed

\* C11: a cycle whose plan has no action, or an action outside the recognized
\* ones, sends no request, and the memory it writes differs from the memory a
\* genuine HOLD writes.
C11_UnrecognizedIsRecordedHold ==
    (Analyzed /\ plan.action \notin RecognizedActions)
        => (/\ log = <<>>
            /\ Len(written) = 1
            /\ written[1].generalObservations # "AI recommended HOLD.")

\* C12: a call of executeOrder or cancelOrder made with live trading off
\* returns the synthetic acknowledgment ("placed" / "cancelled"), takes no
\* nonce, sends no request and leaves the exchange as it was.
C12_DryRunSendsNothing ==
    (call.op # Undefined /\ ~call.live)
        => (/\ call.status = (IF call.op = "sendorder" THEN "placed" ELSE "cancelled")
            /\ nonceCounter = call.nonceBefore
            /\ Len(log) = call.requestsBefore
            /\ position = call.before.position
            /\ openOrders = call.before.openOrders)

\* C12 witness: a cancelOrder call with live trading off, made after a live
\* order was sent and while an order rests on the exchange.
C12_Witness ==
    /\ call.op = "cancelorder"
    /\ ~call.live
    /\ call.status = "cancelled"
    /\ Len(log) >= 1
    /\ openOrders # {}

\* C13: once runBot runs, every cycle that has returned, normally or through
\* tradingLoop's catch block after a failed exchange, oracle or file step, is
\* followed by the next cycle being scheduled and started.
C13_NextCycleAlwaysStarts ==
    \A n \in 0..(MaxCycles - 2) :
        (pc = "done" /\ cycle = n) ~> (cycle = n + 1 /\ pc # "idle")

\* C13 witness: a cycle started after a cycle that failed at an exchange step
\* and left the crash notes.
C13_Witness ==
    /\ cycle >= 1
    /\ pc = "analyze"
    /\ running = 1
    /\ ctx.previousNotes = errorNotes("request failed")

C15_OracleFailureEndsCycle ==
    /\ pc # "suspended"
    /\ (pc = "done" /\ plan.failed)
        => (log = <<>> /\ Len(written) = 1)

\* C16: reading the memory file after a write that succeeded returns the value
\* written, and reading when no file was ever written returns the default
\* memory (lastTrade.action "none", observations "Bot initialized.").
C16_MemoryRoundTrip ==
    /\ (pc = "done" /\ env.writeOk /\ written # <<>>)
        => readNotes(notesFile) = written[Len(written)]
    /\ ~notesFile.exists
        => (/\ readNotes(notesFile).hasLastTrade
            /\ readNotes(notesFile).lastTrade.action = "none"
            /\ readNotes(notesFile).generalObservations = "Bot initialized.")

\* C16 witness: the notes of an entered trade, written and read back.
C16_Witness ==
    /\ pc = "done"
    /\ env.writeOk
    /\ Len(written) = 1
    /\ written[1].hasLastTrade
    /\ written[1].lastTrade.result = "Open"
    /\ written[1].lastTrade.entryPrice = 50000
    /\ readNotes(notesFile) = written[1]

C18_WrittenHasTradeMemoryShape ==
    /\ \A i \in 1..Len(written) :
        /\ written[i].hasLastTrade
        /\ written[i].generalObservations # Undefined
    /\ (pc = "analyze" /\ ctx # NoContext) => ctx.previousNotes.hasLastTrade

\* The requests one cycle of tradingLoop sends after its reads, as a function
\* of the plan, the context and the exchange's answers: nothing unless
\* handleNewPosition reaches its entry order, then the entry, then the
\* stop-loss if the entry was acknowledged.
Requests(p, c, e) ==
    IF Dispatch(p, c).next # "entry"
    THEN <<>>
    ELSE LET size == calculateTradeSize(c.availableMargin, c.indicators.lastPrice)
             first == executeOrder(IS_LIVE_TRADING_ENABLED, e.entry)
             second == executeOrder(IS_LIVE_TRADING_ENABLED, e.stop)
             entry == IF first.sent
                      THEN <<Sent("sendorder", entryOrder(p, size), first.status)>>
                      ELSE <<>>
             stop == IF second.sent
                     THEN <<Sent("sendorder",
                                 stopLossOrder(p, size, c.indicators.lastPrice),
                                 second.status)>>
                     ELSE <<>>
         IN  IF EntryPlaced(first.status) THEN entry \o stop ELSE entry

\* Memory contents a cycle may load: the default, a crash note without
\* lastTrade, the record of an open trade, and a HOLD observation.
Memories ==
    {DefaultNotes,
     errorNotes("request failed"),
     newNotes([action |-> "ENTER_LONG"], 50000),
     newNotes([action |-> "ENTER_SHORT"], 50000),
     WithObservation(DefaultNotes, "AI recommended HOLD.")}

C20_NormalCaseSize ==
    sizing # NoSizing =>
        LET m == sizing.availableMargin
            q == sizing.currentPrice
            maxLeveragedUSD == m * LEVERAGE * LEVERAGE_SAFETY_FACTOR_PCT
            riskDefinedUSD == (m * RISK_PER_TRADE_PERCENT * 100) \div STOP_LOSS_PERCENT
            targetUSD == IF maxLeveragedUSD <= riskDefinedUSD
                         THEN maxLeveragedUSD ELSE riskDefinedUSD
            off == sizing.tradeSizeBTC * q - targetUSD * 100
        IN  /\ MINIMUM_TRADE_USD * 100 <= targetUSD
                => (2 * off <= q /\ 0 - q <= 2 * off)
            /\ (m = 1000 /\ q = 50000) => sizing.tradeSizeBTC = 100

\* C20 witness: the sizer called with the margin and price of the example.
C20_Witness ==
    /\ sizing.availableMargin = 1000
    /\ sizing.currentPrice = 50000
    /\ sizing.tradeSizeBTC = 100

\* C21: whenever the smaller of the leveraged limit and the risk-defined size is
\* below the minimum trade size and the minimum is within the leveraged limit,
\* calculateTradeSize returns the minimum divided by the price, to the nearest
\* 0.0001 BTC: 0.0002 for the minimum of 10 USD at a price of 50000.
C21_FloorCaseSize ==
    sizing # NoSizing =>
        LET m == sizing.availableMargin
            q == sizing.currentPrice
            maxLeveragedUSD == m * LEVERAGE * LEVERAGE_SAFETY_FACTOR_PCT
            riskDefinedUSD == (m * RISK_PER_TRADE_PERCENT * 100) \div STOP_LOSS_PERCENT
            targetUSD == IF maxLeveragedUSD <= riskDefinedUSD
                         THEN maxLeveragedUSD ELSE riskDefinedUSD
            minimumUSD == MINIMUM_TRADE_USD * 100
            off == sizing.tradeSizeBTC * q - minimumUSD * 100
        IN  (targetUSD < minimumUSD /\ minimumUSD <= maxLeveragedUSD)
                => /\ 2 * off <= q
                   /\ 0 - q <= 2 * off
                   /\ q = 50000 => sizing.tradeSizeBTC = 2

\* C21 witness: a margin of 10 USD, whose risk-defined size is 5 USD, sized at
\* a price of 50000.
C21_Witness ==
    /\ sizing.availableMargin = 10
    /\ sizing.currentPrice = 50000
    /\ sizing.tradeSizeBTC = 2

\* Margins whose leveraged limit is below the minimum trade size.
InfeasibleMargins == {0, 1}

\* C22: whenever the leveraged limit is below the minimum trade size, a margin
\* of zero included, calculateTradeSize returns zero, and a cycle asked to
\* enter with such a margin sends no order and ends with the note of an
\* aborted entry, not with a crash note.
C22_InfeasibleSizeSendsNothing ==
    /\ \A m \in InfeasibleMargins, q \in SizerPrices :
        /\ m * LEVERAGE * LEVERAGE_SAFETY_FACTOR_PCT < MINIMUM_TRADE_USD * 100
        /\ calculateTradeSize(m, q) = 0
    /\ (ctx.availableMargin * LEVERAGE * LEVERAGE_SAFETY_FACTOR_PCT
            < MINIMUM_TRADE_USD * 100)
        => /\ pc \notin {"entry", "stop"}
           /\ (/\ pc = "done"
               /\ ~plan.failed
               /\ plan.action \in EntryActions
               /\ ~ctx.hasOpenPosition
               /\ ctx.indicators.defined)
               => /\ log = <<>>
                  /\ written = <<WithObservation(ctx.previousNotes,
                                    "Trade size was zero, aborted entry.")>>

\* C22 witness: an ENTER_LONG plan met with a margin of 1 USD and no position.
C22_Witness ==
    /\ pc = "done"
    /\ plan.action = "ENTER_LONG"
    /\ ~plan.failed
    /\ ctx.availableMargin = 1
    /\ ~ctx.hasOpenPosition
    /\ ctx.indicators.defined
    /\ log = <<>>
    /\ Len(written) = 1
    /\ written[1].generalObservations = "Trade size was zero, aborted entry."

\* Two signRequest calls whose inputs differ in exactly one of endpoint, nonce
\* and body.
DiffersInOne(a, b) ==
    \/ (a.endpoint # b.endpoint /\ a.nonce = b.nonce /\ a.postData = b.postData)
    \/ (a.endpoint = b.endpoint /\ a.nonce # b.nonce /\ a.postData = b.postData)
    \/ (a.endpoint = b.endpoint /\ a.nonce = b.nonce /\ a.postData # b.postData)

SameInputs(a, b) ==
    a.endpoint = b.endpoint /\ a.nonce = b.nonce /\ a.postData = b.postData

\* C23 as stated: equal inputs give equal signatures, and two calls that differ
\* in exactly one of endpoint, nonce and body sign different messages, paths
\* that differ only by the '/derivatives' prefix included.
C23_OneDifferenceChangesMessage ==
    Len(signed) = 2 =>
        /\ SameInputs(signed[1], signed[2]) => signed[1].authent = signed[2].authent
        /\ DiffersInOne(signed[1], signed[2])
            => signed[1].authent.message # signed[2].authent.message

\* C23, amended: equal inputs give equal signatures; two calls that differ in
\* exactly one of nonce and body, or only in endpoints that are not the same
\* path with and without the '/derivatives' prefix, sign different messages;
\* an endpoint with the prefix and the same endpoint without it, under the same
\* nonce and body, get the same signature.
C23_OneDifferenceInSignedTextChangesMessage ==
    Len(signed) = 2 =>
        /\ SameInputs(signed[1], signed[2]) => signed[1].authent = signed[2].authent
        /\ (/\ DiffersInOne(signed[1], signed[2])
            /\ {signed[1].endpoint, signed[2].endpoint}
                 # {"/derivatives/api/v3/sendorder", "/api/v3/sendorder"})
            => /\ signed[1].authent.message # signed[2].authent.message
               /\ signed[1].authent # signed[2].authent
        /\ (/\ DiffersInOne(signed[1], signed[2])
            /\ {signed[1].endpoint, signed[2].endpoint}
                 = {"/derivatives/api/v3/sendorder", "/api/v3/sendorder"})
            => signed[1].authent = signed[2].authent

\* C23 witness: two calls that differ only in the body, signed differently.
C23_Witness ==
    /\ Len(signed) = 2
    /\ signed[1].endpoint = signed[2].endpoint
    /\ signed[1].nonce = signed[2].nonce
    /\ signed[1].postData = "size=1"
    /\ signed[2].postData = "size="
    /\ signed[1].authent # signed[2].authent

\* C24: with a clock that never goes backwards, every nonce is at least as
\* large, read as an integer, as every nonce createNonce() returned before it,
\* the calls around the counter's wrap from 9999 to 0 included.
C24_NoncesNeverDecrease ==
    (mark # NoNonce /\ sinceMark >= 1) => mark <= lastNonce

\* The stop-loss order mirrors the entry: same size, opposite side, and a limit
\* price one dollar beyond the stop price, away from the position.
StopMirrorsEntry ==
    LET entry == built.entry[1]
        stop == built.stop[1]
        long == built.action = "ENTER_LONG"
    IN  /\ stop.orderType = "stp"
        /\ stop.size = entry.size
        /\ entry.side = (IF long THEN "buy" ELSE "sell")
        /\ stop.side = (IF long THEN "sell" ELSE "buy")
        /\ stop.limitPrice = (IF long THEN stop.stopPrice - 1 ELSE stop.stopPrice + 1)

\* The stop price lies STOP_LOSS_PERCENT from the current price, to the nearest
\* dollar, on the losing side of the position.
StopIsOffset ==
    LET stop == built.stop[1]
        q == built.currentPrice
        long == built.action = "ENTER_LONG"
        exact == IF long THEN q * (100 - STOP_LOSS_PERCENT)
                 ELSE q * (100 + STOP_LOSS_PERCENT)
    IN  /\ 2 * (100 * stop.stopPrice - exact) <= 100
        /\ 2 * (exact - 100 * stop.stopPrice) <= 100
        /\ IF long THEN stop.stopPrice < q ELSE stop.stopPrice > q

C26_NoRetryNoRequestAfterFailure ==
    /\ Cardinality({i \in DOMAIN log : IsEntry(log[i])}) <= 1
    /\ Cardinality({i \in DOMAIN log : IsStop(log[i])}) <= 1
    /\ \A i \in DOMAIN log : log[i].op = "sendorder"
    /\ (pc = "done" /\ ctx = NoContext) => log = <<>>
    /\ (pc = "done" /\ plan.failed) => log = <<>>
    /\ (log # <<>> /\ env.entry # "placed") => Len(log) = 1
    /\ \A i \in DOMAIN log : log[i].status # "placed" => i = Len(log)
    /\ pc = "done" => fileOps[Len(fileOps)].requests <= FetchRequests + 2

\* C26 witness: the entry request failed and the cycle ended without a stop-loss
\* request and without a second entry request.
C26_Witness ==
    /\ pc = "done"
    /\ env.entry = "throw"
    /\ Len(log) = 1
    /\ IsEntry(log[1])
    /\ log[1].status = "throw"

\* C27: the message signRequest signs is the body, then the nonce, then the
\* endpoint without a leading '/derivatives' (the endpoint itself when it does
\* not start with it), and every private request carries in its Nonce header
\* the nonce that is in the signed message, with the signature of that message.
C27_SignedMessageAndHeaderNonce ==
    \A i \in DOMAIN signed :
        LET s == signed[i]
            path == CASE s.endpoint = "/derivatives/api/v3/sendorder" -> "/api/v3/sendorder"
                      [] s.endpoint = "/derivatives/api/v3/cancelorder" -> "/api/v3/cancelorder"
                      [] s.endpoint = "/derivatives/api/v3/accounts" -> "/api/v3/accounts"
                      [] s.endpoint = "/derivatives/api/v3/openpositions" -> "/api/v3/openpositions"
                      [] s.endpoint = "/derivatives/api/v3/openorders" -> "/api/v3/openorders"
                      [] OTHER -> s.endpoint
        IN  /\ s.authent.message = s.postData \o s.nonce \o path
            /\ s.headers # <<>>
                => /\ s.headers[1].Nonce = s.nonce
                   /\ s.headers[1].Authent = s.authent
                   /\ SubSeq(s.authent.message, Len(s.postData) + 1,
                             Len(s.postData) + Len(s.headers[1].Nonce))
                        = s.headers[1].Nonce

\* C27 witness: executeOrder's request, signed over body, nonce and
\* '/api/v3/sendorder', after a direct call with the unprefixed endpoint.
C27_Witness ==
    /\ Len(signed) = 2
    /\ signed[1].endpoint = "/api/v3/sendorder"
    /\ signed[1].authent.message = "size=1" \o "170000000000000001" \o "/api/v3/sendorder"
    /\ signed[2].function = "executeOrder"
    /\ signed[2].nonce = "100001"
    /\ signed[2].headers[1].Nonce = "100001"
    /\ signed[2].authent.message
         = "orderType=mkt&symbol=pf_xbtusd&side=buy&size=0.01100001/api/v3/sendorder"

\* The number a text of decimal digits reads as.
DigitValue(ch) == CHOOSE d \in 0..9 : Digit(d) = ch

RECURSIVE TextValue(_)
TextValue(text) ==
    IF Len(text) = 0 THEN 0
    ELSE 10 * TextValue(SubSeq(text, 1, Len(text) - 1))
         + DigitValue(SubSeq(text, Len(text), Len(text)))

\* The counter part of the nonce last returned is five decimal digits that read
\* as a value from 0 to 9999, and they are the last five characters of the nonce.
CounterPartIsPadded ==
    lastNonce # NoNonce =>
        LET used == Suffix(lastNonce)
            part == PaddedCounter(used)
            text == NonceText(NonceTime(lastNonce), used)
        IN  /\ used \in 0..NONCE_WRAP
            /\ Len(part) = 5
            /\ \A i \in 1..5 : \E d \in 0..9 : SubSeq(part, i, i) = Digit(d)
            /\ TextValue(part) = used
            /\ SubSeq(text, Len(text) - 4, Len(text)) = part
            /\ TextValue(text) = lastNonce

\* C28 as stated: the counter is always within [0, 9999], a call leaves it at
\* the counter it used plus one modulo 10000, and the counter part of every
\* nonce is a five-digit zero-padded value of [0, 9999].
C28_CounterWithinWrap ==
    /\ nonceCounter \in 0..NONCE_WRAP
    /\ lastNonce # NoNonce
        => nonceCounter = (Suffix(lastNonce) + 1) % (NONCE_WRAP + 1)
    /\ CounterPartIsPadded

\* C28, amended: the counter is always within [0, 10000]; a call leaves it at
\* the counter it used plus one, 10000 included, and the next call uses the
\* successor modulo 10000 of the counter the last one used; the counter part of
\* every nonce is a five-digit zero-padded value of [0, 9999].
C28_CounterWithinWrapPlusOne ==
    /\ nonceCounter \in 0..(NONCE_WRAP + 1)
    /\ lastNonce # NoNonce
        => /\ nonceCounter = Suffix(lastNonce) + 1
           /\ Suffix(createNonce(now, nonceCounter).nonce)
                = (Suffix(lastNonce) + 1) % (NONCE_WRAP + 1)
    /\ CounterPartIsPadded

\* C28 witness: the call that used 9999 left the counter at 10000, and the next
\* call will use 0.
C28_Witness ==
    /\ lastNonce # NoNonce
    /\ Suffix(lastNonce) = 9999
    /\ nonceCounter = 10000
    /\ PaddedCounter(Suffix(lastNonce)) = "09999"
    /\ Suffix(createNonce(now, nonceCounter).nonce) = 0

\* The private reads issued so far, in issue order.
PrivateReads == SelectSeq(reads.issued, LAMBDA r : r.private)

\* C29: the three private reads take their nonces before any request settles,
\* their nonces are pairwise different and increase in issue order whatever
\* the order of completion, and the results are combined only when all four
\* requests have completed.
C29_ConcurrentReadsTakeIncreasingNonces ==
    /\ reads.finished # {} => Len(PrivateReads) = 3
    /\ \A i, j \in DOMAIN PrivateReads :
        i < j => PrivateReads[i].nonce < PrivateReads[j].nonce
    /\ reads.result = "combined" => reads.finished = 1..Len(ReadCalls)

\* Margin and price whose target of 10 USD is 0.00004 BTC, which rounds to
\* 0.0000 at four decimals.
RoundsToZero == [availableMargin |-> 20, currentPrice |-> 250000]

\* C30: no order of size zero or less is ever requested; when the sizer returns
\* zero, for an infeasible target or for a target that rounds to 0.0000,
\* handleNewPosition gives up before any request and the cycle writes the note
\* of the aborted entry.
C30_NoOrderOfSizeZero ==
    /\ \A i \in DOMAIN log : log[i].size > 0
    /\ calculateTradeSize(RoundsToZero.availableMargin, RoundsToZero.currentPrice) = 0
    /\ \A p \in {e \in Plans : e.action \in EntryActions} :
        handleNewPosition(p, fullContext(0, {}, RoundsToZero.availableMargin,
                                         DefaultNotes, RoundsToZero.currentPrice))
          = Return(WithObservation(DefaultNotes, "Trade size was zero, aborted entry."))
    /\ (/\ pc \in {"entry", "stop", "done"}
        /\ ~plan.failed
        /\ plan.action \in EntryActions
        /\ ~ctx.hasOpenPosition
        /\ ctx.indicators.defined
        /\ calculateTradeSize(ctx.availableMargin, ctx.indicators.lastPrice) <= 0)
        => /\ pc = "done"
           /\ log = <<>>
           /\ Len(written) = 1
           /\ written[1].generalObservations = "Trade size was zero, aborted entry."

\* C30 witness: an ENTER_SHORT plan whose size came out zero: nothing sent, the
\* note written; and elsewhere sizes that are sent are positive.
C30_Witness ==
    /\ pc = "done"
    /\ plan.action = "ENTER_SHORT"
    /\ ~plan.failed
    /\ ~ctx.hasOpenPosition
    /\ ctx.indicators.defined
    /\ calculateTradeSize(ctx.availableMargin, ctx.indicators.lastPrice) = 0
    /\ log = <<>>
    /\ written[1].generalObservations = "Trade size was zero, aborted entry."
    /\ fileOps = <<ReadOp, WriteOp(FetchRequests)>>

\* C31: when any of the three credentials is missing, main() exits: the process
\* never runs, no cycle starts, no nonce is taken and no request, oracle call
\* or file operation happens.
C31_MissingCredentialExitsBeforeAnyCycle ==
    /\ (startup.state # "unstarted" /\ startup.credentials # AllCredentials)
        => startup.state = "exited"
    /\ startup.state \in {"unstarted", "exited"}
        => /\ pc = "idle"
           /\ cycle = 0
           /\ running = 0
           /\ nonceCounter = 0
           /\ lastNonce = NoNonce
           /\ plan = NoPlan
           /\ log = <<>>
           /\ fileOps = <<>>

\* C31 witness: main() found the oracle key missing and exited.
C31_Witness ==
    /\ startup.state = "exited"
    /\ startup.credentials = [key |-> TRUE, secret |-> TRUE, oracle |-> FALSE]
    /\ cycle = 0
    /\ pc = "idle"

\* C32: a stop order is requested only as the second request of a cycle whose
\* first request was an entry that the exchange acknowledged as placed; the
\* cycle stands at its stop-loss request only after such an entry.
C32_StopOnlyAfterPlacedEntry ==
    /\ \A i \in DOMAIN log :
        IsStop(log[i])
            => /\ i = 2
               /\ IsEntry(log[1])
               /\ log[1].status = "placed"
               /\ env.entry = "placed"
    /\ pc = "stop"
        => /\ Len(log) = 1
           /\ IsEntry(log[1])
           /\ log[1].status = "placed"

\* C32 witness: a limit entry acknowledged as placed, followed by its stop.
C32_Witness ==
    /\ pc = "done"
    /\ Len(log) = 2
    /\ IsEntry(log[1])
    /\ log[1].orderType = "lmt"
    /\ log[1].status = "placed"
    /\ IsStop(log[2])
    /\ log[2].status = "placed"

\* C33: between two cycles, whatever cycles ran before and whatever the
\* exchange did with the orders in between, at most one stop order placed by
\* the handlers is resting.
C33_AtMostOneStopBetweenCycles ==
    pc = "idle" => \A o, q \in StopOrders(openOrders) : o.id = q.id

\* The plan of the cycle is one its handler refuses: an entry while a position
\* is open, an exit without a position, or a stop adjustment without a
\* position or without a stop order.
Refused(p, c) ==
    \/ p.action \in EntryActions /\ c.hasOpenPosition
    \/ p.action = "EXIT_POSITION" /\ ~c.hasOpenPosition
    \/ p.action = "ADJUST_SL" /\ (~c.hasOpenPosition \/ Len(c.openOrders) = 0)

\* C34: a cycle whose plan is refused sends no request and hands to writeNotes,
\* once, the memory it loaded at its start; when the write succeeds the file
\* reads back as the memory loaded.
C34_RefusedPlanKeepsMemory ==
    (Analyzed /\ Refused(plan, ctx))
        => /\ log = <<>>
           /\ written = <<ctx.previousNotes>>
           /\ env.writeOk => readNotes(notesFile) = ctx.previousNotes

\* C34 witness: an exit asked for without a position, in a cycle that loaded
\* the memory of an earlier entry and wrote it back.
C34_Witness ==
    /\ Analyzed
    /\ plan.action = "EXIT_POSITION"
    /\ ~ctx.hasOpenPosition
    /\ ctx.previousNotes.hasLastTrade
    /\ ctx.previousNotes.lastTrade.result = "Open"
    /\ env.writeOk
    /\ written = <<ctx.previousNotes>>
    /\ readNotes(notesFile) = ctx.previousNotes

\* The entry of the cycle was requested and acknowledged as placed.
EntryAcknowledged ==
    /\ ~plan.failed
    /\ plan.action \in {"buy", "sell"}
    /\ ~ctx.hasOpenPosition
    /\ calculateTradeSize(ctx.availableMargin, ctx.indicators.lastPrice) > 0
    /\ EntryPlaced(executeOrder(env.live, env.entry).status)

\* C35: a cycle of the memory-aware loop that found no position while the
\* memory it loaded had lastTrade.action other than "none" writes, if it writes
\* and no entry was acknowledged in it, a memory with lastTrade.result "Closed"
\* and action "none"; and no cycle that found no position and had no entry
\* acknowledged writes a lastTrade with result "Open" or leaves one in the
\* file it wrote.
C35_ClosedTradeIsRecorded ==
    (pc = "done" /\ ctx # NoContext /\ ~ctx.hasOpenPosition /\ ~EntryAcknowledged)
        => /\ \A i \in DOMAIN written :
                /\ written[i].lastTrade.result # "Open"
                /\ ctx.loaded.lastTrade.action # "none"
                    => /\ written[i].lastTrade.result = "Closed"
                       /\ written[i].lastTrade.action = "none"
           /\ (written # <<>> /\ env.writeOk)
                => readNotes(notesFile).lastTrade.result # "Open"

\* C35 witness: the memory of an open "buy" was loaded, no position was found,
\* the oracle said hold, and the memory written and read back is closed.
C35_Witness ==
    /\ pc = "done"
    /\ ctx # NoContext
    /\ ~ctx.hasOpenPosition
    /\ ctx.loaded.lastTrade.action = "buy"
    /\ ctx.loaded.lastTrade.result = "Open"
    /\ plan.action = "hold"
    /\ env.writeOk
    /\ Len(written) = 1
    /\ written[1].lastTrade.result = "Closed"
    /\ written[1].lastTrade.action = "none"
    /\ readNotes(notesFile).lastTrade.result = "Closed"

\* C36: whenever the sizer returns a nonzero quantity and the floor was not
\* applied, the quantity is the conversion of a target whose loss at a move of
\* STOP_LOSS_PERCENT is at most RISK_PER_TRADE_PERCENT of the margin; whenever
\* that loss exceeds the budget for a nonzero quantity, the floor was applied.
C36_LossAtStopWithinRiskBudget ==
    (sizing # NoSizing /\ sizing.tradeSizeBTC # 0)
        => LET m == sizing.availableMargin
               targetUSD == finalPositionUSD(m)
               lossAtStop == targetUSD * STOP_LOSS_PERCENT
               riskBudget == m * RISK_PER_TRADE_PERCENT * 100
           IN  /\ sizing.tradeSizeBTC = RoundDiv(targetUSD * 100, sizing.currentPrice)
               /\ ~belowMinimum(m) => lossAtStop <= riskBudget
               /\ lossAtStop > riskBudget
                    => (belowMinimum(m) /\ targetUSD = MINIMUM_TRADE_USD * 100)

\* C36 witness: a margin of 1000 USD sized without the floor at a target of
\* 500 USD, whose 2 % are the budget of 10 USD.
C36_Witness ==
    /\ sizing # NoSizing
    /\ sizing.tradeSizeBTC # 0
    /\ sizing.availableMargin = 1000
    /\ sizing.currentPrice = 50000
    /\ ~belowMinimum(1000)
    /\ finalPositionUSD(1000) = 50000
    /\ sizing.tradeSizeBTC = 100

\* calculateTradeSize was called and did not return through its check against
\* the buying power.
SizedFeasible ==
    /\ sizing # NoSizing
    /\ ~(finalPositionUSD(sizing.availableMargin)
            > maxLeveragedPositionUSD(sizing.availableMargin))

\* C37: whenever the sizer does not return zero through the check against the
\* buying power, the quantity it returns is the conversion of a USD target
\* between MINIMUM_TRADE_USD and the leveraged limit; otherwise it returns zero.
C37_TargetBetweenMinimumAndLeveragedLimit ==
    sizing # NoSizing
        => IF SizedFeasible
           THEN /\ MINIMUM_TRADE_USD * 100 <= finalPositionUSD(sizing.availableMargin)
                /\ finalPositionUSD(sizing.availableMargin)
                      <= maxLeveragedPositionUSD(sizing.availableMargin)
                /\ sizing.tradeSizeBTC
                      = RoundDiv(finalPositionUSD(sizing.availableMargin) * 100,
                                 sizing.currentPrice)
           ELSE sizing.tradeSizeBTC = 0

\* C37 witness: a margin of 2 USD, whose target is the minimum of 10 USD under
\* a leveraged limit of 18 USD, converted at 50000.
C37_Witness ==
    /\ SizedFeasible
    /\ sizing.availableMargin = 2
    /\ sizing.currentPrice = 50000
    /\ finalPositionUSD(2) = MINIMUM_TRADE_USD * 100
    /\ maxLeveragedPositionUSD(2) = 1800
    /\ sizing.tradeSizeBTC = 2

====
